---- MODULE Spec2Model ----
(***************************************************************************)
(* ndarray-layout: the ArrayLayout record (offset, shape, strides) and its *)
(* transform algebra (index, slice, split, tile, merge, broadcast,         *)
(* transpose) together with data_range.                                    *)
(*                                                                         *)
(* A layout is the record [offset, shape, strides]; axes are numbered from *)
(* 0 as in the source, so axis a of the source is element a+1 of the       *)
(* sequences here.  Every operation returns an outcome                     *)
(*   [kind |-> "ok", val |-> layout]   a layout was returned (Some / Self) *)
(*   [kind |-> "none", ...]            Option::None was returned           *)
(*   [kind |-> "panic", ...]           an assert!/index/arith panic ended  *)
(*                                     the call, nothing was returned      *)
(***************************************************************************)
EXTENDS Integers, Sequences, FiniteSets, TLC

VARIABLES cur, before, op, out, valid, split, objs, heap

vars == <<cur, before, op, out, valid, split, objs, heap>>

-----------------------------------------------------------------------------
(* Bounds of the model.                                                    *)

MaxRank == 2

MaxExtent == 2

MaxStride == 1

MaxOffset == 1

MaxStep == 2

MaxTiles == 2

MaxParts == 2

MaxContigRank == 3

MaxElemSize == 2
\* calls of Split::next made after the sequence is exhausted
MaxExhausted == 2

\* layouts alive at once, heap blocks ever allocated, and the rank and the
\* extents of the layouts whose storage is followed
MaxObjs == 2

MaxBlocks == 3

MaxHeapRank == 4

MaxHeapExtent == 1

\* inline capacity of ArrayLayout<const N: usize = 2>
N == 2

-----------------------------------------------------------------------------
(* Values.                                                                 *)

Nil == [offset |-> 0, shape |-> <<>>, strides |-> <<>>]

Ok(l) == [kind |-> "ok", val |-> l, rng |-> <<0, 0>>]

None == [kind |-> "none", val |-> Nil, rng |-> <<0, 0>>]

Panic == [kind |-> "panic", val |-> Nil, rng |-> <<0, 0>>]

Layout(offset, shape, strides) ==
    [offset |-> offset, shape |-> shape, strides |-> strides]

Ndim(l) == Len(l.shape)

Min2(a, b) == IF a <= b THEN a ELSE b

Abs(x) == IF x < 0 THEN -x ELSE x

\* usize::div_ceil for b > 0
DivCeil(a, b) == (a + b - 1) \div b

\* isize division truncates toward zero (b # 0)
TruncDiv(a, b) ==
    IF (a >= 0) = (b > 0) THEN Abs(a) \div Abs(b) ELSE -(Abs(a) \div Abs(b))

SeqsUpTo(S, n) == UNION {[1..k -> S] : k \in 0..n}

-----------------------------------------------------------------------------
(* Construction.                                                           *)

\* a constructor that also validates the minimum offset, which new is told
\* apart from: the sum of (d - 1) * s over the first k axes with s < 0
RECURSIVE NegReach(_, _, _)
NegReach(shape, strides, k) ==
    IF k = 0 THEN 0
    ELSE NegReach(shape, strides, k - 1) +
         (IF strides[k] < 0 THEN (shape[k] - 1) * strides[k] ELSE 0)

NewValidated(shape, strides, offset) ==
    IF Len(shape) # Len(strides) THEN Panic
    ELSE IF \E k \in 0..Len(shape) : offset + NegReach(shape, strides, k) < 0
    THEN Panic
    ELSE Ok(Layout(offset, shape, strides))

\* ArrayLayout::new: the only check is the equal-length assertion; then the
\* three fields are copied as given.
New(shape, strides, offset) ==
    IF Len(shape) # Len(strides) THEN Panic
    ELSE Ok(Layout(offset, shape, strides))

\* a range that adds s * d per axis, which data_range is told apart from
RECURSIVE RangeLoopFull(_, _, _, _, _)
RangeLoopFull(shape, strides, k, start, end) ==
    IF k > Len(shape) THEN <<start, end>>
    ELSE LET d == shape[k]
             s == strides[k]
         IN  IF s = 0 THEN RangeLoopFull(shape, strides, k + 1, start, end)
             ELSE IF s < 0
                  THEN RangeLoopFull(shape, strides, k + 1, start + s * d, end)
                  ELSE RangeLoopFull(shape, strides, k + 1, start, end + s * d)

\* ArrayLayout::data_range: both ends start at offset; each axis adds
\* s * (d - 1) to start when s < 0 and to end when s > 0.
RECURSIVE RangeLoop(_, _, _, _, _)
RangeLoop(shape, strides, k, start, end) ==
    IF k > Len(shape) THEN <<start, end>>
    ELSE LET i == shape[k] - 1
             s == strides[k]
         IN  IF s = 0 THEN RangeLoop(shape, strides, k + 1, start, end)
             ELSE IF s < 0
                  THEN RangeLoop(shape, strides, k + 1, start + s * i, end)
                  ELSE RangeLoop(shape, strides, k + 1, start, end + s * i)

data_range(l) == RangeLoop(l.shape, l.strides, 1, l.offset, l.offset)

-----------------------------------------------------------------------------
(* index / index_many.  An argument is [axis, index].                      *)

\* a bound check that admits index = shape[axis], which the check of
\* index_many is told apart from
IndexCheckInclusive(shape, arg) ==
    arg.axis < Len(shape) /\ arg.index <= shape[arg.axis + 1]

IndexCheck(shape, arg) ==
    arg.axis < Len(shape) /\ arg.index < shape[arg.axis + 1]

\* the loop over the axes: i is the 0-based axis, acc the layout being filled
RECURSIVE IndexLoop(_, _, _, _, _)
IndexLoop(l, i, args, ndim, acc) ==
    IF i >= Ndim(l) THEN Ok(acc)
    ELSE LET d == l.shape[i + 1]
             s == l.strides[i + 1]
         IN  IF args # <<>> /\ Head(args).axis = i
             THEN LET tail == Tail(args)
                  IN  IF tail # <<>> /\
                         ~(IndexCheck(l.shape, Head(tail)) /\ Head(tail).axis > i)
                      THEN Panic
                      ELSE IndexLoop(l, i + 1, tail, ndim,
                               [acc EXCEPT !.offset = @ + Head(args).index * s])
             ELSE IF Len(acc.shape) >= ndim THEN Panic   \* set_shape: idx < ndim
                  ELSE IndexLoop(l, i + 1, args, ndim,
                           [acc EXCEPT !.shape = Append(@, d),
                                       !.strides = Append(@, s)])

index_many(l, args) ==
    IF args = <<>> THEN Ok(l)
    ELSE IF ~IndexCheck(l.shape, Head(args)) THEN Panic
    ELSE IF Len(args) > Ndim(l) THEN Panic            \* order - args.len()
    ELSE IndexLoop(l, 0, args, Ndim(l) - Len(args), Layout(l.offset, <<>>, <<>>))

index(l, axis, i) == index_many(l, <<[axis |-> axis, index |-> i]>>)

-----------------------------------------------------------------------------
(* slice / slice_many.  An argument is [axis, start, step, len].           *)
(* checked = TRUE is a build with overflow checks (d - 1 panics for d = 0),*)
(* checked = FALSE a build where usize arithmetic wraps.                   *)

\* a slice that rounds the remaining length down, which the rounding up of
\* slice_many is told apart from
SliceAxisFloor(d, arg, checked) ==
    IF arg.step > 0
    THEN IF arg.start < d
         THEN [ok |-> TRUE, start |-> arg.start,
               len |-> Min2((d - arg.start) \div arg.step, arg.len)]
         ELSE [ok |-> FALSE, start |-> 0, len |-> 0]
    ELSE IF arg.step = 0
    THEN IF arg.start < d
         THEN [ok |-> TRUE, start |-> arg.start, len |-> arg.len]
         ELSE [ok |-> FALSE, start |-> 0, len |-> 0]
    ELSE IF d = 0 /\ checked
         THEN [ok |-> FALSE, start |-> 0, len |-> 0]
         ELSE LET start == IF d = 0 THEN arg.start ELSE Min2(arg.start, d - 1)
              IN  [ok |-> TRUE, start |-> start,
                   len |-> Min2((start + 1) \div (-arg.step), arg.len)]

\* the new length and the clamped start of one sliced axis, or "panic"
SliceAxis(d, arg, checked) ==
    IF arg.step > 0
    THEN IF arg.start < d
         THEN [ok |-> TRUE, start |-> arg.start,
               len |-> Min2(DivCeil(d - arg.start, arg.step), arg.len)]
         ELSE [ok |-> FALSE, start |-> 0, len |-> 0]
    ELSE IF arg.step = 0
    THEN IF arg.start < d
         THEN [ok |-> TRUE, start |-> arg.start, len |-> arg.len]
         ELSE [ok |-> FALSE, start |-> 0, len |-> 0]
    ELSE IF d = 0 /\ checked
         THEN [ok |-> FALSE, start |-> 0, len |-> 0]
         ELSE LET start == IF d = 0 THEN arg.start ELSE Min2(arg.start, d - 1)
              IN  [ok |-> TRUE, start |-> start,
                   len |-> Min2(DivCeil(start + 1, -arg.step), arg.len)]

RECURSIVE SliceLoop(_, _, _, _, _)
SliceLoop(l, i, args, checked, acc) ==
    IF i >= Ndim(l) THEN Ok(acc)
    ELSE LET d == l.shape[i + 1]
             s == l.strides[i + 1]
         IN  IF args # <<>> /\ Head(args).axis = i
             THEN LET arg == Head(args)
                      tail == Tail(args)
                      r == SliceAxis(d, arg, checked)
                  IN  IF ~r.ok THEN Panic
                      ELSE IF tail # <<>> /\
                              ~(arg.axis < Head(tail).axis /\ Head(tail).axis < Ndim(l))
                      THEN Panic
                      ELSE SliceLoop(l, i + 1, tail, checked,
                               [offset |-> acc.offset + r.start * s,
                                shape |-> Append(acc.shape, r.len),
                                strides |-> Append(acc.strides, s * arg.step)])
             ELSE SliceLoop(l, i + 1, args, checked,
                      [acc EXCEPT !.shape = Append(@, d), !.strides = Append(@, s)])

slice_many(l, args, checked) ==
    SliceLoop(l, 0, args, checked, Layout(l.offset, <<>>, <<>>))

slice(l, axis, start, step, len, checked) ==
    slice_many(l, <<[axis |-> axis, start |-> start, step |-> step, len |-> len]>>,
               checked)

-----------------------------------------------------------------------------
(* tile_be / tile_le / tile_many.  An argument is [axis, order, tiles],    *)
(* order "be" (BigEndian) or "le" (LittleEndian).                          *)

RECURSIVE Product(_)
Product(s) == IF s = <<>> THEN 1 ELSE Head(s) * Product(Tail(s))

RECURSIVE Sum(_)
Sum(s) == IF s = <<>> THEN 0 ELSE Head(s) + Sum(Tail(s))

TileCheck(shape, arg) ==
    arg.axis < Len(shape) /\ shape[arg.axis + 1] = Product(arg.tiles)

\* the checks made before anything is written: every argument passes check
\* and the axes are strictly ascending
RECURSIVE TileArgsOk(_, _, _)
TileArgsOk(shape, args, last_axis) ==
    \/ args = <<>>
    \/ /\ TileCheck(shape, Head(args))
       /\ Head(args).axis > last_axis
       /\ TileArgsOk(shape, Tail(args), Head(args).axis)

RECURSIVE TileOrders(_)
TileOrders(args) ==
    IF args = <<>> THEN 0 ELSE Len(Head(args).tiles) + TileOrders(Tail(args))

\* BigEndian: s starts at s * d and is divided by each tile before the push;
\* a tile of 0 is a division by zero
RECURSIVE TileBE(_, _, _)
TileBE(tiles, s, acc) ==
    IF tiles = <<>> THEN Ok(acc)
    ELSE IF Head(tiles) = 0 THEN Panic
    ELSE LET s2 == TruncDiv(s, Head(tiles))
         IN  TileBE(Tail(tiles), s2,
                 [acc EXCEPT !.shape = Append(@, Head(tiles)),
                             !.strides = Append(@, s2)])

\* LittleEndian: push first, then multiply s by the tile
RECURSIVE TileLE(_, _, _)
TileLE(tiles, s, acc) ==
    IF tiles = <<>> THEN Ok(acc)
    ELSE TileLE(Tail(tiles), s * Head(tiles),
             [acc EXCEPT !.shape = Append(@, Head(tiles)),
                         !.strides = Append(@, s)])

RECURSIVE TileLoop(_, _, _, _, _)
TileLoop(l, i, args, ndim, acc) ==
    IF i >= Ndim(l) THEN Ok(acc)
    ELSE LET d == l.shape[i + 1]
             s == l.strides[i + 1]
         IN  IF args # <<>> /\ Head(args).axis = i
             THEN LET r == IF Head(args).order = "be"
                           THEN TileBE(Head(args).tiles, s * d, acc)
                           ELSE TileLE(Head(args).tiles, s, acc)
                  IN  IF r.kind # "ok" THEN Panic
                      ELSE IF Len(r.val.shape) > ndim THEN Panic
                      ELSE TileLoop(l, i + 1, Tail(args), ndim, r.val)
             ELSE IF Len(acc.shape) >= ndim THEN Panic
                  ELSE TileLoop(l, i + 1, args, ndim,
                           [acc EXCEPT !.shape = Append(@, d),
                                       !.strides = Append(@, s)])

tile_many(l, args) ==
    IF args = <<>> THEN Ok(l)
    ELSE IF ~(TileCheck(l.shape, Head(args)) /\
              TileArgsOk(l.shape, Tail(args), Head(args).axis))
    THEN Panic
    ELSE TileLoop(l, 0, args, Ndim(l) + TileOrders(args) - Len(args),
                  Layout(l.offset, <<>>, <<>>))

tile_be(l, axis, tiles) ==
    tile_many(l, <<[axis |-> axis, order |-> "be", tiles |-> tiles]>>)

tile_le(l, axis, tiles) ==
    tile_many(l, <<[axis |-> axis, order |-> "le", tiles |-> tiles]>>)

-----------------------------------------------------------------------------
(* broadcast / broadcast_many.  An argument is [axis, times].              *)

RECURSIVE BroadcastLoop(_, _)
BroadcastLoop(acc, args) ==
    IF args = <<>> THEN Ok(acc)
    ELSE LET a == Head(args).axis
         IN  IF a >= Ndim(acc) THEN Panic
             ELSE IF ~(acc.shape[a + 1] = 1 \/ acc.strides[a + 1] = 0) THEN Panic
             ELSE BroadcastLoop(
                      [acc EXCEPT !.shape[a + 1] = Head(args).times,
                                  !.strides[a + 1] = 0],
                      Tail(args))

broadcast_many(l, args) == BroadcastLoop(l, args)

broadcast(l, axis, times) ==
    broadcast_many(l, <<[axis |-> axis, times |-> times]>>)

-----------------------------------------------------------------------------
(* transpose.  perm is a sequence of 0-based axes.                         *)

Range(s) == {s[k] : k \in 1..Len(s)}

\* the elements of a finite set of naturals in ascending order (BTreeSet)
RECURSIVE SortedSeq(_)
SortedSeq(S) ==
    IF S = {} THEN <<>>
    ELSE LET m == CHOOSE x \in S : \A y \in S : x <= y
         IN  <<m>> \o SortedSeq(S \ {m})

\* a set(i, j) that reads axis i and writes slot j, which the direction of
\* transpose is told apart from
TransposeSetSwapped(l, acc, i, j) ==
    IF i >= Ndim(l) \/ j >= Ndim(l) THEN Panic
    ELSE Ok([acc EXCEPT !.shape[j + 1] = l.shape[i + 1],
                        !.strides[j + 1] = l.strides[i + 1]])

\* set(i, j): shape[j] and strides[j] are read, slot i of the answer written
TransposeSet(l, acc, i, j) ==
    IF i >= Ndim(l) \/ j >= Ndim(l) THEN Panic
    ELSE Ok([acc EXCEPT !.shape[i + 1] = l.shape[j + 1],
                        !.strides[i + 1] = l.strides[j + 1]])

\* for i in from..to { set(i, i) }
RECURSIVE TransposeKeep(_, _, _, _)
TransposeKeep(l, acc, from, to) ==
    IF from >= to THEN Ok(acc)
    ELSE LET r == TransposeSet(l, acc, from, from)
         IN  IF r.kind # "ok" THEN Panic
             ELSE TransposeKeep(l, r.val, from + 1, to)

RECURSIVE TransposeLoop(_, _, _, _, _)
TransposeLoop(l, acc, sorted, perm, last) ==
    IF sorted = <<>> THEN TransposeKeep(l, acc, last, Ndim(l))
    ELSE LET i == Head(sorted)
             j == Head(perm)
             r1 == TransposeKeep(l, acc, last, i)
         IN  IF r1.kind # "ok" THEN Panic
             ELSE LET r2 == TransposeSet(l, r1.val, i, j)
                  IN  IF r2.kind # "ok" THEN Panic
                      ELSE TransposeLoop(l, r2.val, Tail(sorted), Tail(perm), i + 1)

\* the answer starts as with_order(order): every slot is written by the
\* loops before it is returned, so the starting content is never observed
transpose(l, perm) ==
    IF Cardinality(Range(perm)) # Len(perm) THEN Panic
    ELSE TransposeLoop(l,
             Layout(l.offset, [k \in 1..Ndim(l) |-> 0], [k \in 1..Ndim(l) |-> 0]),
             SortedSeq(Range(perm)), perm, 0)

-----------------------------------------------------------------------------
(* merge / merge_many.  An argument is a Range<usize> [start, end).        *)
(* sort_unstable_by_key may order equal keys either way and unwritten heap *)
(* slots hold arbitrary values, so merge_many is the set of its outcomes.  *)

RangeLen(r) == IF r.end > r.start THEN r.end - r.start ELSE 0

RECURSIVE Merged(_)
Merged(args) == IF args = <<>> THEN 0 ELSE RangeLen(Head(args)) + Merged(Tail(args))

\* the (extent, stride) pairs of axes [start, end) of l
Pairs(l, r) ==
    [k \in 1..(r.end - r.start) |->
        [d |-> l.shape[r.start + k], s |-> l.strides[r.start + k]]]

\* every order sort_unstable_by_key(|s| s.unsigned_abs()) may leave
SortedOrders(ps) ==
    LET n == Len(ps)
        perms == {p \in [1..n -> 1..n] : \A a, b \in 1..n : a # b => p[a] # p[b]}
    IN  {[k \in 1..n |-> ps[p[k]]] : p \in
            {q \in perms : \A k \in 1..(n - 1) : Abs(ps[q[k]].s) <= Abs(ps[q[k + 1]].s)}}

\* the test of one adjacent pair (l, ls), (r, rs); s is the stride of pairs[0]
MergeCompat(l, ls, r, rs, s) ==
    l = 1 \/ s = 1 \/ ls = rs * r \/ rs = ls * l

\* the loop over a sorted run: None at the first pair failing the test,
\* otherwise extent = product of the extents, stride = stride of pairs[0]
MergeRun(ps) ==
    IF \E i \in 2..Len(ps) :
           ~MergeCompat(ps[i - 1].d, ps[i - 1].s, ps[i].d, ps[i].s, ps[1].s)
    THEN [ok |-> FALSE, d |-> 0, s |-> 0]
    ELSE [ok |-> TRUE, d |-> Product([k \in 1..Len(ps) |-> ps[k].d]), s |-> ps[1].s]

UninitValues == {0, 1}

\* the slots with_ndim left unwritten: zero in the inline area, arbitrary in
\* a fresh heap block
Unwritten(acc, ndim) ==
    LET k == ndim - Len(acc.shape)
    IN  IF k <= 0 THEN {acc}
        ELSE IF ndim <= N
        THEN {[acc EXCEPT !.shape = @ \o [j \in 1..k |-> 0],
                          !.strides = @ \o [j \in 1..k |-> 0]]}
        ELSE {[acc EXCEPT !.shape = @ \o sh, !.strides = @ \o st] :
                 sh \in [1..k -> UninitValues], st \in [1..k -> UninitValues]}

PushAxes(l, acc, from, to) ==
    [acc EXCEPT !.shape = @ \o SubSeq(l.shape, from + 1, to),
                !.strides = @ \o SubSeq(l.strides, from + 1, to)]

RECURSIVE MergeLoop(_, _, _, _, _)
MergeLoop(l, args, last_end, ndim, acc) ==
    IF args = <<>>
    THEN {Ok(a) : a \in Unwritten(PushAxes(l, acc, last_end, Ndim(l)), ndim)}
    ELSE LET r == Head(args)
         IN  IF RangeLen(r) = 0 THEN MergeLoop(l, Tail(args), last_end, ndim, acc)
             ELSE IF r.start < last_end THEN {Panic}
             ELSE IF r.end > Ndim(l) THEN {Panic}
             ELSE UNION {
                    LET m == MergeRun(ps)
                    IN  IF ~m.ok THEN {None}
                        ELSE MergeLoop(l, Tail(args), r.end, ndim,
                                 LET a == PushAxes(l, acc, last_end, r.start)
                                 IN  [a EXCEPT !.shape = Append(@, m.d),
                                               !.strides = Append(@, m.s)])
                    : ps \in SortedOrders(Pairs(l, r))}

merge_many(l, args) ==
    LET ndim == Ndim(l) + Len(args) - Merged(args)
    IN  IF ndim < 0 THEN {Panic}
        ELSE MergeLoop(l, args, 0, ndim, Layout(l.offset, <<>>, <<>>))

merge(l, start, end) == merge_many(l, <<[start |-> start, end |-> end]>>)

-----------------------------------------------------------------------------
(* split and Split::next.                                                  *)

NoSplit == [live |-> FALSE, src |-> Nil, axis |-> 0, start |-> 0, parts |-> <<>>]

\* a split without the assertion on the sum of the parts, which split is
\* told apart from
SplitUnchecked(l, axis, parts) ==
    IF axis >= Ndim(l) THEN [ok |-> FALSE, it |-> NoSplit]
    ELSE [ok |-> TRUE,
          it |-> [live |-> TRUE, src |-> l, axis |-> axis, start |-> 0,
                  parts |-> parts]]

\* split: the assert_eq! on the sum of the parts, then the iterator
split_(l, axis, parts) ==
    IF axis >= Ndim(l) THEN [ok |-> FALSE, it |-> NoSplit]
    ELSE IF l.shape[axis + 1] # Sum(parts) THEN [ok |-> FALSE, it |-> NoSplit]
    ELSE [ok |-> TRUE,
          it |-> [live |-> TRUE, src |-> l, axis |-> axis, start |-> 0,
                  parts |-> parts]]

\* Split::next: the iterator is advanced before the slice is taken
SplitNext(it, checked) ==
    IF it.parts = <<>> THEN [it |-> it, res |-> None]
    ELSE [it |-> [it EXCEPT !.start = @ + Head(it.parts), !.parts = Tail(@)],
          res |-> slice(it.src, it.axis, it.start, 1, Head(it.parts), checked)]

-----------------------------------------------------------------------------
(* new_contiguous: endian "be" walks the axes from the last to the first,  *)
(* "le" from the first to the last; mul starts at element_size.            *)

RECURSIVE ContigLoop(_, _, _, _)
ContigLoop(shape, order, mul, strides) ==
    IF order = <<>> THEN strides
    ELSE ContigLoop(shape, Tail(order), mul * shape[Head(order)],
             [strides EXCEPT ![Head(order)] = mul])

new_contiguous(shape, endian, element_size) ==
    LET n == Len(shape)
        order == IF endian = "be" THEN [k \in 1..n |-> n + 1 - k]
                 ELSE [k \in 1..n |-> k]
    IN  Ok(Layout(0, shape, ContigLoop(shape, order, element_size, [k \in 1..n |-> 0])))

-----------------------------------------------------------------------------
(* Storage.  A layout of rank ndim <= N keeps its content inline; a larger *)
(* one owns a heap block.  heap is the sequence of the blocks allocated so *)
(* far, a block being named by its position in it; ptr = 0 is "inline".    *)
(* A block records the slots it was allocated with, how many times it was  *)
(* passed to dealloc, and the slots given to the last dealloc.             *)

\* layout(ndim): Layout::array::<usize>(1 + ndim * 2)
layout(ndim) == 1 + ndim * 2

NoObj == [live |-> FALSE, l |-> Nil, ptr |-> 0]

\* alloc(layout(ndim)): a fresh block
alloc(h, slots) == Append(h, [size |-> slots, frees |-> 0, freed |-> 0])

\* dealloc(ptr, layout(ndim))
dealloc(h, ptr, slots) == [h EXCEPT ![ptr].frees = @ + 1, ![ptr].freed = slots]

\* ptr_allocated: Some(ptr) when ndim > N, None (0) otherwise
ptr_allocated(ndim, ptr) == IF ndim > N THEN ptr ELSE 0

\* with_ndim(ndim): the heap after the call and the ptr of the new layout
with_ndim(h, ndim) ==
    IF ndim <= N THEN [heap |-> h, ptr |-> 0]
    ELSE [heap |-> alloc(h, layout(ndim)), ptr |-> Len(h) + 1]

\* Drop::drop of a layout of rank ndim
drop(h, ndim, ptr) ==
    IF ptr_allocated(ndim, ptr) # 0
    THEN dealloc(h, ptr_allocated(ndim, ptr), layout(ndim))
    ELSE h

\* new / new_contiguous: with_ndim(shape.len()), then the content is filled
Construct(h, l) ==
    LET a == with_ndim(h, Ndim(l))
    IN  [heap |-> a.heap, obj |-> [live |-> TRUE, l |-> l, ptr |-> a.ptr]]

\* a copy that keeps the ptr of the original, which clone is told apart from
CloneShared(h, o) == [heap |-> h, obj |-> o]

\* Clone::clone: Self::new(self.shape(), self.strides(), self.offset())
clone(h, o) == Construct(h, o.l)

\* the rank a transform passes to with_ndim, or -1 when it panics before it
\* has allocated its answer
IndexNdim(l, args) ==
    IF args = <<>> THEN Ndim(l)
    ELSE IF ~IndexCheck(l.shape, Head(args)) THEN -1
    ELSE IF Len(args) > Ndim(l) THEN -1
    ELSE Ndim(l) - Len(args)

SliceNdim(l, args) == Ndim(l)

TileNdim(l, args) ==
    IF args = <<>> THEN Ndim(l)
    ELSE IF ~(TileCheck(l.shape, Head(args)) /\
              TileArgsOk(l.shape, Tail(args), Head(args).axis)) THEN -1
    ELSE Ndim(l) + TileOrders(args) - Len(args)

MergeNdim(l, args) ==
    IF Ndim(l) + Len(args) - Merged(args) < 0 THEN -1
    ELSE Ndim(l) + Len(args) - Merged(args)

BroadcastNdim(l, args) == Ndim(l)

TransposeNdim(l, perm) ==
    IF Cardinality(Range(perm)) # Len(perm) THEN -1 ELSE Ndim(l)

\* a transform of a layout: its answer ans is allocated by with_ndim(ndim);
\* when it returns, ans is the new layout; when it panics or returns None
\* after the allocation, ans is dropped.  outs are the outcomes of the call.
Transform(h, ndim, outs) ==
    IF ndim < 0 THEN {[heap |-> h, obj |-> NoObj]}
    ELSE LET a == with_ndim(h, ndim)
         IN  {IF o.kind = "ok"
              THEN [heap |-> a.heap,
                    obj |-> [live |-> TRUE, l |-> o.val, ptr |-> a.ptr]]
              ELSE [heap |-> drop(a.heap, ndim, a.ptr), obj |-> NoObj]
              : o \in outs}

-----------------------------------------------------------------------------
(* The state machine: a layout is constructed, then one call is made on it *)
(* (and, after split, the iterator is drained).  Every layout within the   *)
(* bounds is one new can construct, so a longer chain of calls is the same *)
(* call made on the constructed intermediate layout.                       *)
(*   cur     the layout the next call is made on                           *)
(*   before  the layout the last call was made on                          *)
(*   op      the last call: its name and its arguments                     *)
(*   out     what the last call returned                                   *)
(*   valid   cur was built by new with a non-negative minimum offset and   *)
(*           the transform since was called within its preconditions       *)
(*   split   the Split iterator, once split was called                     *)

Extents == 0..MaxExtent

Strides == (-MaxStride)..MaxStride

Offsets == 0..MaxOffset

Steps == (-MaxStep)..MaxStep

Orders == {"be", "le"}

\* the axes a call may name on l: its own and one past the last
AxesOf(l) == 0..Ndim(l)

\* the lower end of data_range: offset plus (d - 1) * s over the axes with s < 0
MinOffset(l) == data_range(l)[1]

Receiver == op.name \in {"new", "new_contiguous"} /\ out.kind = "ok"

Init ==
    /\ cur = Nil
    /\ before = Nil
    /\ op = [name |-> "init", args |-> <<>>]
    /\ out = None
    /\ valid = FALSE
    /\ split = NoSplit
    /\ objs = [i \in 1..MaxObjs |-> NoObj]
    /\ heap = <<>>

\* a call named name with arguments args returned o; pre says the call was
\* within the preconditions stated for it
Apply(name, args, o, pre) ==
    /\ op' = [name |-> name, args |-> args]
    /\ before' = cur
    /\ out' = o
    /\ cur' = IF o.kind = "ok" THEN o.val ELSE cur
    /\ valid' = IF o.kind = "ok" THEN valid /\ pre ELSE valid
    /\ UNCHANGED <<split, objs, heap>>

DoNew ==
    /\ op.name = "init"
    /\ \E shape \in SeqsUpTo(Extents, MaxRank), offset \in Offsets :
         \E strides \in [1..Len(shape) -> Strides] \cup {<<>>} :
            LET o == New(shape, strides, offset)
            IN  /\ op' = [name |-> "new",
                          args |-> [shape |-> shape, strides |-> strides,
                                    offset |-> offset]]
                /\ before' = Nil
                /\ out' = o
                /\ cur' = IF o.kind = "ok" THEN o.val ELSE cur
                /\ valid' = (o.kind = "ok" /\ MinOffset(o.val) >= 0)
                /\ UNCHANGED <<split, objs, heap>>

DoNewContiguous ==
    /\ op.name = "init"
    /\ \E shape \in SeqsUpTo(Extents, MaxContigRank), endian \in Orders,
          element_size \in 1..MaxElemSize :
         LET o == new_contiguous(shape, endian, element_size)
         IN  /\ op' = [name |-> "new_contiguous",
                       args |-> [shape |-> shape, endian |-> endian,
                                 element_size |-> element_size]]
             /\ before' = Nil
             /\ out' = o
             /\ cur' = o.val
             /\ valid' = TRUE
             /\ UNCHANGED <<split, objs, heap>>

DoDataRange ==
    /\ Receiver
    /\ op' = [name |-> "data_range", args |-> <<>>]
    /\ before' = cur
    /\ out' = [kind |-> "range", val |-> Nil, rng |-> data_range(cur)]
    /\ UNCHANGED <<cur, valid, split, objs, heap>>

\* ---- the arguments drawn for each call, and the stated preconditions ----

IndexArgs(l) == [axis : AxesOf(l), index : Extents]

IndexPre(l, a) == a.axis < Ndim(l) /\ a.index < l.shape[a.axis + 1]

SliceArgs(l) == [axis : AxesOf(l), start : Extents, step : Steps, len : Extents]

\* the smaller set the two-argument calls draw from
SliceArgs2(l) == [axis : AxesOf(l), start : 0..1, step : {-1, 1, MaxStep}, len : 1..MaxExtent]

SlicePre(l, a) == a.axis < Ndim(l) /\ a.start < l.shape[a.axis + 1]

TileArgs(l) == [axis : AxesOf(l), order : Orders, tiles : SeqsUpTo(Extents, MaxTiles)]

TileArgs2(l) == [axis : AxesOf(l), order : Orders, tiles : SeqsUpTo(1..MaxExtent, MaxTiles)]

TilePre(l, a) == a.axis < Ndim(l) /\ l.shape[a.axis + 1] = Product(a.tiles)

MergeArgs(l) == [start : AxesOf(l), end : AxesOf(l)]

MergePre(l, r) == r.start < r.end /\ r.end <= Ndim(l)

BroadcastArgs(l) == [axis : AxesOf(l), times : Extents]

BroadcastPre(l, a) ==
    a.axis < Ndim(l) /\ (l.shape[a.axis + 1] = 1 \/ l.strides[a.axis + 1] = 0)

TransposePre(l, perm) ==
    Cardinality(Range(perm)) = Len(perm) /\ \A a \in Range(perm) : a < Ndim(l)

\* argument lists of the *_many calls: none, or two on ascending axes
\* (ranges: ascending and disjoint)
Many(S) == {<<>>} \cup {<<a, b>> : a \in S, b \in S}

Ascending(args) == \A k \in 1..(Len(args) - 1) : args[k].axis < args[k + 1].axis

AscendingRanges(args) == \A k \in 1..(Len(args) - 1) : args[k].end <= args[k + 1].start

AllPre(P(_, _), l, args) == \A k \in 1..Len(args) : P(l, args[k])

\* ---- the calls --------------------------------------------------------

DoIndex ==
    /\ Receiver
    /\ \E a \in IndexArgs(cur) :
         Apply("index", a, index(cur, a.axis, a.index), IndexPre(cur, a))

DoIndexMany ==
    /\ Receiver
    /\ \E args \in Many(IndexArgs(cur)) :
         /\ Ascending(args)
         /\ Apply("index_many", args, index_many(cur, args),
                  AllPre(IndexPre, cur, args))

DoSlice ==
    /\ Receiver
    /\ \E a \in SliceArgs(cur), checked \in BOOLEAN :
         Apply("slice", a, slice(cur, a.axis, a.start, a.step, a.len, checked),
               SlicePre(cur, a))

DoSliceMany ==
    /\ Receiver
    /\ \E args \in Many(SliceArgs2(cur)), checked \in BOOLEAN :
         /\ Ascending(args)
         /\ Apply("slice_many", args, slice_many(cur, args, checked),
                  AllPre(SlicePre, cur, args))

DoTile ==
    /\ Receiver
    /\ \E a \in TileArgs(cur) :
         Apply(IF a.order = "be" THEN "tile_be" ELSE "tile_le", a,
               IF a.order = "be" THEN tile_be(cur, a.axis, a.tiles)
               ELSE tile_le(cur, a.axis, a.tiles),
               TilePre(cur, a))

DoTileMany ==
    /\ Receiver
    /\ \E args \in Many(TileArgs2(cur)) :
         /\ Ascending(args)
         /\ Apply("tile_many", args, tile_many(cur, args), AllPre(TilePre, cur, args))

DoMerge ==
    /\ Receiver
    /\ \E r \in MergeArgs(cur) :
         \E o \in merge(cur, r.start, r.end) :
            Apply("merge", r, o, MergePre(cur, r))

DoMergeMany ==
    /\ Receiver
    /\ \E args \in Many(MergeArgs(cur)) :
         /\ AscendingRanges(args)
         /\ \E o \in merge_many(cur, args) :
              Apply("merge_many", args, o, AllPre(MergePre, cur, args))

DoBroadcast ==
    /\ Receiver
    /\ \E a \in BroadcastArgs(cur) :
         Apply("broadcast", a, broadcast(cur, a.axis, a.times), BroadcastPre(cur, a))

DoBroadcastMany ==
    /\ Receiver
    /\ \E args \in Many(BroadcastArgs(cur)) :
         /\ Ascending(args)
         /\ Apply("broadcast_many", args, broadcast_many(cur, args),
                  AllPre(BroadcastPre, cur, args))

DoTranspose ==
    /\ Receiver
    /\ \E perm \in SeqsUpTo(AxesOf(cur), Ndim(cur)) :
         Apply("transpose", perm, transpose(cur, perm), TransposePre(cur, perm))

DoSplit ==
    /\ Receiver
    /\ \E axis \in AxesOf(cur), parts \in SeqsUpTo(Extents, MaxParts) :
         LET r == split_(cur, axis, parts)
         IN  /\ op' = [name |-> "split", args |-> [axis |-> axis, parts |-> parts]]
             /\ before' = cur
             /\ out' = IF r.ok THEN [kind |-> "split", val |-> Nil, rng |-> <<0, 0>>]
                       ELSE Panic
             /\ split' = r.it
             /\ UNCHANGED <<cur, valid, objs, heap>>

\* next is called on a live Split: after a layout, and again after None up
\* to MaxExhausted times; a panic ends the calls.  The call records the
\* arguments of the split it iterates and its own number k (1-based).
DoSplitNext ==
    /\ split.live
    /\ op.name \in {"split", "next"}
    /\ out.kind \in {"split", "ok", "none"}
    /\ op.name = "next" => op.args.k < Len(op.args.parts) + MaxExhausted
    /\ \E checked \in BOOLEAN :
         LET r == SplitNext(split, checked)
         IN  /\ op' = [name |-> "next",
                       args |-> [axis |-> op.args.axis, parts |-> op.args.parts,
                                 k |-> IF op.name = "split" THEN 1
                                       ELSE op.args.k + 1]]
             /\ out' = r.res
             /\ split' = r.it
             /\ UNCHANGED <<cur, before, valid, objs, heap>>

\* ---- calls on the owned layouts objs, whose storage is followed: they are
\* made in a run of their own (op.name = "owned"), on layouts constructed
\* contiguous with extents up to MaxHeapExtent; a transform borrows its
\* receiver, which stays alive, and its answer takes an empty place of objs

HeapExtents == 1..MaxHeapExtent

OwnedMode == op.name \in {"init", "owned"}

Live == {i \in 1..MaxObjs : objs[i].live}

Empty == {i \in 1..MaxObjs : ~objs[i].live}

\* one of the results R of a call is taken; a returned layout is kept at j
OwnedCall(j, R) ==
    \E r \in R :
        /\ Len(r.heap) <= MaxBlocks
        /\ r.obj.live => Ndim(r.obj.l) <= MaxHeapRank
        /\ heap' = r.heap
        /\ objs' = IF r.obj.live THEN [objs EXCEPT ![j] = r.obj] ELSE objs
        /\ op' = [name |-> "owned", args |-> <<>>]
        /\ UNCHANGED <<cur, before, out, valid, split>>

OwnedIndexArgs(l) ==
    {<<[axis |-> a, index |-> 0]>> : a \in AxesOf(l)} \cup
    {<<[axis |-> 0, index |-> 0], [axis |-> b, index |-> 0]>> : b \in 0..1}

OwnedSliceArgs(l) ==
    {<<[axis |-> a, start |-> s, step |-> 1, len |-> 1]>> :
        a \in AxesOf(l), s \in 0..1}

OwnedTileArgs(l) ==
    {<<[axis |-> a, order |-> o, tiles |-> ts]>> :
        a \in AxesOf(l), o \in Orders, ts \in SeqsUpTo(HeapExtents, MaxTiles)}

OwnedMergeArgs(l) == {<<r>> : r \in MergeArgs(l)}

OwnedBroadcastArgs(l) ==
    {<<[axis |-> a, times |-> n]>> : a \in AxesOf(l), n \in HeapExtents}

OwnedPerms(l) == {<<1, 0>>, <<0, 0>>, <<0, Ndim(l)>>}

OwnedNew ==
    /\ OwnedMode
    /\ \E j \in Empty, shape \in SeqsUpTo(HeapExtents, MaxHeapRank), endian \in Orders :
         OwnedCall(j, {Construct(heap, new_contiguous(shape, endian, 1).val)})

OwnedClone ==
    /\ OwnedMode
    /\ \E i \in Live, j \in Empty : OwnedCall(j, {clone(heap, objs[i])})

OwnedDrop ==
    /\ OwnedMode
    /\ \E i \in Live :
         /\ heap' = drop(heap, Ndim(objs[i].l), objs[i].ptr)
         /\ objs' = [objs EXCEPT ![i] = NoObj]
         /\ op' = [name |-> "owned", args |-> <<>>]
         /\ UNCHANGED <<cur, before, out, valid, split>>

OwnedIndex ==
    /\ OwnedMode
    /\ \E i \in Live, j \in Empty :
         \E args \in OwnedIndexArgs(objs[i].l) :
            OwnedCall(j, Transform(heap, IndexNdim(objs[i].l, args),
                                   {index_many(objs[i].l, args)}))

OwnedSlice ==
    /\ OwnedMode
    /\ \E i \in Live, j \in Empty :
         \E args \in OwnedSliceArgs(objs[i].l), checked \in BOOLEAN :
            OwnedCall(j, Transform(heap, SliceNdim(objs[i].l, args),
                                   {slice_many(objs[i].l, args, checked)}))

OwnedTile ==
    /\ OwnedMode
    /\ \E i \in Live, j \in Empty :
         \E args \in OwnedTileArgs(objs[i].l) :
            OwnedCall(j, Transform(heap, TileNdim(objs[i].l, args),
                                   {tile_many(objs[i].l, args)}))

OwnedMerge ==
    /\ OwnedMode
    /\ \E i \in Live, j \in Empty :
         \E args \in OwnedMergeArgs(objs[i].l) :
            OwnedCall(j, Transform(heap, MergeNdim(objs[i].l, args),
                                   merge_many(objs[i].l, args)))

OwnedBroadcast ==
    /\ OwnedMode
    /\ \E i \in Live, j \in Empty :
         \E args \in OwnedBroadcastArgs(objs[i].l) :
            OwnedCall(j, Transform(heap, BroadcastNdim(objs[i].l, args),
                                   {broadcast_many(objs[i].l, args)}))

OwnedTranspose ==
    /\ OwnedMode
    /\ \E i \in Live, j \in Empty :
         \E perm \in OwnedPerms(objs[i].l) :
            OwnedCall(j, Transform(heap, TransposeNdim(objs[i].l, perm),
                                   {transpose(objs[i].l, perm)}))

Next ==
    \/ DoNew
    \/ DoNewContiguous
    \/ DoDataRange
    \/ DoIndex
    \/ DoIndexMany
    \/ DoSlice
    \/ DoSliceMany
    \/ DoTile
    \/ DoTileMany
    \/ DoMerge
    \/ DoMergeMany
    \/ DoBroadcast
    \/ DoBroadcastMany
    \/ DoTranspose
    \/ DoSplit
    \/ DoSplitNext
    \/ OwnedNew
    \/ OwnedClone
    \/ OwnedDrop
    \/ OwnedIndex
    \/ OwnedSlice
    \/ OwnedTile
    \/ OwnedMerge
    \/ OwnedBroadcast
    \/ OwnedTranspose

Spec == Init /\ [][Next]_vars

-----------------------------------------------------------------------------
(* The specifications the claims are checked under: the constructor and    *)
(* the one family of calls a claim is about.                               *)

SpecNew == Init /\ [][DoNew]_vars

NextMerge == DoNew \/ DoNewContiguous \/ DoMerge \/ DoMergeMany

SpecMerge == Init /\ [][NextMerge]_vars

NextTile == DoNew \/ DoNewContiguous \/ DoTile \/ DoTileMany

SpecTile == Init /\ [][NextTile]_vars

NextIndex == DoNew \/ DoIndex

SpecIndex == Init /\ [][NextIndex]_vars

NextSlice == DoNew \/ DoSlice

SpecSlice == Init /\ [][NextSlice]_vars

NextTranspose == DoNew \/ DoNewContiguous \/ DoTranspose

SpecTranspose == Init /\ [][NextTranspose]_vars

NextRange == DoNew \/ DoNewContiguous \/ DoDataRange

SpecRange == Init /\ [][NextRange]_vars

NextSplit == DoNew \/ DoSplit \/ DoSplitNext

SpecSplit == Init /\ [][NextSplit]_vars

NextHeap ==
    \/ OwnedNew
    \/ OwnedClone
    \/ OwnedDrop
    \/ OwnedIndex
    \/ OwnedSlice
    \/ OwnedTile
    \/ OwnedMerge
    \/ OwnedBroadcast
    \/ OwnedTranspose

SpecHeap == Init /\ [][NextHeap]_vars

-----------------------------------------------------------------------------
(* Claims.                                                                 *)

\* offset + sum of (shape[i] - 1) * strides[i] over the first k axes with a
\* negative stride
RECURSIVE Reach(_, _, _, _)
Reach(offset, shape, strides, k) ==
    IF k = 0 THEN offset
    ELSE Reach(offset, shape, strides, k - 1) +
         (IF strides[k] < 0 THEN (shape[k] - 1) * strides[k] ELSE 0)

\* the minimum addressable offset of a layout, as the claims define it
MinAddr(l) == Reach(l.offset, l.shape, l.strides, Ndim(l))

BelowZero(offset, shape, strides) ==
    \E k \in 0..Len(shape) : Reach(offset, shape, strides, k) < 0

ChainOk(ps) ==
    \A i \in 2..Len(ps) :
        \/ ps[i - 1].d = 1
        \/ ps[i].d = 1
        \/ ps[i].s = ps[i - 1].s * ps[i - 1].d

\* no order of the run sorted by stride magnitude is mergeable
Unmergeable(l, r) == \A ps \in SortedOrders(Pairs(l, r)) : ~ChainOk(ps)

\* C2: merge returns None for every axis run that is not mergeable: never a
\* layout.
C2_UnmergeableRunIsNone ==
    (op.name = "merge" /\ MergePre(before, op.args) /\ Unmergeable(before, op.args))
        => out.kind = "none"

\* C2 witness: two axes of extent 2 and equal stride 1, which overlap and
\* are not mergeable, were merged into a layout
C2_Witness ==
    /\ op.name = "merge"
    /\ before.shape = <<2, 2>>
    /\ before.strides = <<1, 1>>
    /\ op.args = [start |-> 0, end |-> 2]
    /\ Unmergeable(before, op.args)
    /\ out.kind = "ok"

\* C3: from a layout with minimum addressable offset >= 0, the layout a
\* transform called within its preconditions returns has minimum
\* addressable offset >= 0.
C3_TransformsPreserveValidity ==
    (valid /\ op.name \notin {"init", "new", "new_contiguous"}) => MinAddr(cur) >= 0

\* C3 witness: a successful merge of a layout with no empty axis and a
\* minimum addressable offset >= 0 returned one whose minimum is negative
C3_Witness ==
    /\ op.name = "merge"
    /\ valid
    /\ MergePre(before, op.args)
    /\ \A k \in 1..Ndim(before) : before.shape[k] >= 1
    /\ MinAddr(before) >= 0
    /\ out.kind = "ok"
    /\ MinAddr(cur) < 0

\* C4: tiling axis x with [a, b], a * b = shape[x], under either order, and
\* then merging axes x..x+2 succeeds and gives back the original layout.
C4_TileThenMergeRestores ==
    (/\ op.name \in {"tile_be", "tile_le"}
     /\ Len(op.args.tiles) = 2
     /\ TilePre(before, op.args))
        => /\ out.kind = "ok"
           /\ \A o \in merge(out.val, op.args.axis, op.args.axis + 2) :
                 o.kind = "ok" /\ o.val = before

\* C4 witness: a big-endian tiling of an empty axis by [0, b] panicked
C4_Witness ==
    /\ op.name = "tile_be"
    /\ Len(op.args.tiles) = 2
    /\ TilePre(before, op.args)
    /\ op.args.tiles[1] = 0
    /\ out.kind = "panic"

\* ---- C5: the single-axis call repeated in ascending-axis order; shift is
\* the number of axes the earlier steps removed (< 0) or inserted (> 0)

Fail == [kind |-> "fail", val |-> Nil, rng |-> <<0, 0>>]

\* panic and None are both failure
Norm(o) == IF o.kind = "ok" THEN o ELSE Fail

RECURSIVE IndexRepeat(_, _, _)
IndexRepeat(l, args, shift) ==
    IF args = <<>> THEN Ok(l)
    ELSE IF Head(args).axis + shift < 0 THEN Panic
    ELSE LET o == index(l, Head(args).axis + shift, Head(args).index)
         IN  IF o.kind # "ok" THEN o ELSE IndexRepeat(o.val, Tail(args), shift - 1)

RECURSIVE SliceRepeat(_, _, _)
SliceRepeat(l, args, checked) ==
    IF args = <<>> THEN Ok(l)
    ELSE LET a == Head(args)
             o == slice(l, a.axis, a.start, a.step, a.len, checked)
         IN  IF o.kind # "ok" THEN o ELSE SliceRepeat(o.val, Tail(args), checked)

RECURSIVE TileRepeat(_, _, _)
TileRepeat(l, args, shift) ==
    IF args = <<>> THEN Ok(l)
    ELSE LET a == Head(args)
             o == IF a.order = "be" THEN tile_be(l, a.axis + shift, a.tiles)
                  ELSE tile_le(l, a.axis + shift, a.tiles)
         IN  IF o.kind # "ok" THEN o
             ELSE TileRepeat(o.val, Tail(args), shift + Len(a.tiles) - 1)

RECURSIVE BroadcastRepeat(_, _)
BroadcastRepeat(l, args) ==
    IF args = <<>> THEN Ok(l)
    ELSE LET o == broadcast(l, Head(args).axis, Head(args).times)
         IN  IF o.kind # "ok" THEN o ELSE BroadcastRepeat(o.val, Tail(args))

\* merge has several outcomes: the set of the normalised outcomes
RECURSIVE MergeRepeat(_, _, _)
MergeRepeat(l, args, shift) ==
    IF args = <<>> THEN {Ok(l)}
    ELSE LET r == Head(args)
         IN  UNION {
               IF o.kind # "ok" THEN {Fail}
               ELSE MergeRepeat(o.val, Tail(args), shift + RangeLen(r) - 1)
               : o \in merge(l, r.start - shift, r.end - shift)}

\* C5: every *_many call on ascending axes returns what the single-axis
\* call repeated in ascending-axis order returns, and fails exactly when
\* the repetition fails.
C5_ManyEqualsRepeated ==
    /\ op.name = "index_many" => Norm(out) = Norm(IndexRepeat(before, op.args, 0))
    /\ op.name = "slice_many" =>
          /\ \E c \in BOOLEAN : Norm(out) = Norm(SliceRepeat(before, op.args, c))
          /\ \A c \in BOOLEAN :
                Norm(slice_many(before, op.args, c)) = Norm(SliceRepeat(before, op.args, c))
    /\ op.name = "tile_many" => Norm(out) = Norm(TileRepeat(before, op.args, 0))
    /\ op.name = "broadcast_many" =>
          Norm(out) = Norm(BroadcastRepeat(before, op.args))
    /\ (op.name = "merge_many" /\ AllPre(MergePre, before, op.args)) =>
          /\ Norm(out) \in MergeRepeat(before, op.args, 0)
          /\ {Norm(o) : o \in merge_many(before, op.args)}
                 = MergeRepeat(before, op.args, 0)

\* C5 witness: slice_many panicked on arguments, on strictly ascending
\* axes, for which slice applied once per argument returns a layout
C5_Witness ==
    /\ op.name = "slice_many"
    /\ Len(op.args) = 2
    /\ Ascending(op.args)
    /\ out.kind = "panic"
    /\ \A c \in BOOLEAN : SliceRepeat(before, op.args, c).kind = "ok"

\* the inverse of perm as a permutation of the axes it names: position
\* sorted[k] is given the axis sorted[m] for which perm[m] = sorted[k]
InversePerm(perm) ==
    LET sorted == SortedSeq(Range(perm))
    IN  [k \in 1..Len(perm) |->
            sorted[CHOOSE m \in 1..Len(perm) : perm[m] = sorted[k]]]

AxisOf(l, a) == <<l.shape[a + 1], l.strides[a + 1]>>

\* C6: transpose(perm), perm distinct in-range axes, keeps the offset, puts
\* the (shape, stride) pair of axis perm[k] at the k-th smallest axis of
\* perm, keeps every other axis in place, and is undone by the inverse
\* permutation; a perm with a repeated axis is rejected.
C6_TransposeRoundTrip ==
    op.name = "transpose" =>
        LET perm == op.args
            sorted == SortedSeq(Range(perm))
        IN  /\ Cardinality(Range(perm)) # Len(perm) => out.kind = "panic"
            /\ TransposePre(before, perm) =>
                  /\ out.kind = "ok"
                  /\ out.val.offset = before.offset
                  /\ Ndim(out.val) = Ndim(before)
                  /\ Len(out.val.strides) = Ndim(before)
                  /\ \A k \in 1..Len(perm) :
                        AxisOf(out.val, sorted[k]) = AxisOf(before, perm[k])
                  /\ \A a \in 0..(Ndim(before) - 1) :
                        a \notin Range(perm) => AxisOf(out.val, a) = AxisOf(before, a)
                  /\ transpose(out.val, InversePerm(perm)) = Ok(before)

\* C6 witness: a three-axis cycle, which is not its own inverse, was applied
\* to a layout whose axes all differ
C6_Witness ==
    /\ op.name = "transpose"
    /\ out.kind = "ok"
    /\ op.args = <<1, 2, 0>>
    /\ InversePerm(op.args) # op.args
    /\ Cardinality({AxisOf(before, a) : a \in 0..2}) = 3
    /\ out.val # before

\* ceil(a / b) for b > 0
Ceil(a, b) == CHOOSE q \in 0..a : q * b >= a /\ (q = 0 \/ (q - 1) * b < a)

\* C7: slice(axis, start, step, len) with start < shape[axis] keeps the rank
\* and every other axis, multiplies strides[axis] by step, adds
\* start * strides[axis] to the offset, and sets shape[axis] to min(len, R),
\* R = ceil((shape[axis]-start)/step) for step > 0, ceil((start+1)/|step|)
\* for step < 0, len for step = 0; slice(axis, 0, 1, shape[axis]) is the
\* identity.
C7_SliceResult ==
    (op.name = "slice" /\ SlicePre(before, op.args)) =>
        LET a == op.args
            x == a.axis + 1
            d == before.shape[x]
            R == IF a.step > 0 THEN Ceil(d - a.start, a.step)
                 ELSE IF a.step < 0 THEN Ceil(Min2(a.start, d - 1) + 1, -a.step)
                 ELSE a.len
        IN  /\ out.kind = "ok"
            /\ Ndim(out.val) = Ndim(before)
            /\ Len(out.val.strides) = Ndim(before)
            /\ \A k \in 1..Ndim(before) :
                  k # x => /\ out.val.shape[k] = before.shape[k]
                           /\ out.val.strides[k] = before.strides[k]
            /\ out.val.strides[x] = before.strides[x] * a.step
            /\ out.val.offset = before.offset + Min2(a.start, d - 1) * before.strides[x]
            /\ out.val.shape[x] = Min2(a.len, R)
            /\ (a.start = 0 /\ a.step = 1 /\ a.len = d) => out.val = before

\* C7 witness: a slice with a step of 2 over an odd number of remaining
\* elements of a negative-stride axis, cut below the requested length
C7_Witness ==
    /\ op.name = "slice"
    /\ SlicePre(before, op.args)
    /\ out.kind = "ok"
    /\ op.args.step = 2
    /\ (before.shape[op.args.axis + 1] - op.args.start) % 2 = 1
    /\ out.val.shape[op.args.axis + 1] < op.args.len
    /\ before.strides[op.args.axis + 1] < 0
    /\ out.val.offset # before.offset

\* C8: index(a, i) with a < rank and i < shape[a] returns the layout without
\* axis a, the other axes in order and unchanged, at offset
\* offset + i * strides[a]; i >= shape[a] or a >= rank is rejected.
C8_IndexResult ==
    op.name = "index" =>
        LET a == op.args.axis
            i == op.args.index
        IN  IF a < Ndim(before) /\ i < before.shape[a + 1]
            THEN /\ out.kind = "ok"
                 /\ Ndim(out.val) = Ndim(before) - 1
                 /\ Len(out.val.strides) = Ndim(before) - 1
                 /\ out.val.offset = before.offset + i * before.strides[a + 1]
                 /\ \A k \in 1..a : AxisOf(out.val, k - 1) = AxisOf(before, k - 1)
                 /\ \A k \in (a + 1)..(Ndim(before) - 1) :
                       AxisOf(out.val, k - 1) = AxisOf(before, k)
            ELSE out.kind = "panic" /\ cur = before

\* C8 witness: a non-zero coordinate of a negative-stride axis was indexed,
\* with an axis on either side of it or after it
C8_Witness ==
    /\ op.name = "index"
    /\ out.kind = "ok"
    /\ op.args.index > 0
    /\ before.strides[op.args.axis + 1] < 0
    /\ Ndim(before) = MaxRank
    /\ out.val.offset < before.offset

\* the in-bounds multi-indices of l and the linear position of one
Indices(l) ==
    {f \in [1..Ndim(l) -> 0..MaxExtent] : \A k \in 1..Ndim(l) : f[k] < l.shape[k]}

RECURSIVE Dot(_, _, _)
Dot(f, strides, k) == IF k = 0 THEN 0 ELSE Dot(f, strides, k - 1) + f[k] * strides[k]

Position(l, f) == l.offset + Dot(f, l.strides, Ndim(l))

\* C9: data_range returns [lo, hi] containing the position of every
\* in-bounds multi-index; when the layout has an element, lo and hi are the
\* minimum and the maximum of those positions and lo <= offset <= hi.
C9_DataRangeBounds ==
    op.name = "data_range" =>
        LET lo == out.rng[1]
            hi == out.rng[2]
            pos == {Position(before, f) : f \in Indices(before)}
        IN  /\ \A q \in pos : lo <= q /\ q <= hi
            /\ pos # {} => /\ lo \in pos
                           /\ hi \in pos
                           /\ lo <= before.offset /\ before.offset <= hi

\* C9 witness: the range of a layout with a negative, a positive stride and
\* more than one element on each of those axes
C9_Witness ==
    /\ op.name = "data_range"
    /\ Indices(before) # {}
    /\ \E j, k \in 1..Ndim(before) :
          /\ before.strides[j] < 0 /\ before.shape[j] > 1
          /\ before.strides[k] > 0 /\ before.shape[k] > 1
    /\ out.rng[1] < before.offset
    /\ out.rng[2] > before.offset

\* C10 (as stated): split with sizes that do not sum to shape[axis] reports
\* an absent result the caller can test; the call is not aborted.
C10_SplitMismatchIsOptional ==
    (/\ op.name = "split"
     /\ op.args.axis < Ndim(before)
     /\ Sum(op.args.parts) # before.shape[op.args.axis + 1])
        => out.kind = "none"

\* C10 (amended): split with sizes that do not sum to shape[axis] fails its
\* assertion: the call panics, no Split is returned and so no layout is
\* ever yielded; a Split is returned exactly when the sizes sum to
\* shape[axis].
C10_SplitMismatchPanics ==
    /\ op.name = "split" =>
          IF /\ op.args.axis < Ndim(before)
             /\ Sum(op.args.parts) = before.shape[op.args.axis + 1]
          THEN /\ out.kind = "split"
               /\ split.live
               /\ split.src = before
               /\ split.axis = op.args.axis
               /\ split.start = 0
               /\ split.parts = op.args.parts
          ELSE out.kind = "panic" /\ ~split.live /\ cur = before
    /\ op.name = "next" => split.live
    /\ ~split.live => split = NoSplit

\* C10 witness: split was called on an axis of the layout with sizes that
\* do not sum to its extent, and the call panicked
C10_Witness ==
    /\ op.name = "split"
    /\ op.args.axis < Ndim(before)
    /\ Len(op.args.parts) = 2
    /\ Sum(op.args.parts) # before.shape[op.args.axis + 1]
    /\ out.kind = "panic"

\* the sum of the first k elements of s
RECURSIVE Prefix(_, _)
Prefix(s, k) == IF k = 0 THEN 0 ELSE Prefix(s, k - 1) + s[k]

\* C11: the Split of a layout L on axis x by parts summing to L.shape[x]
\* (zero sizes included) yields exactly Len(parts) layouts and then None on
\* every later call; the k-th layout is L with shape[x] = parts[k] and
\* offset = L.offset + (parts[1] + ... + parts[k-1]) * L.strides[x]; L is
\* unchanged throughout.
C11_SplitYieldsParts ==
    op.name = "next" =>
        LET parts == op.args.parts
            x == op.args.axis + 1
            k == op.args.k
        IN  /\ cur = before
            /\ split.src = before
            /\ IF k <= Len(parts)
               THEN /\ out.kind = "ok"
                    /\ out.val =
                          [before EXCEPT
                             !.shape[x] = parts[k],
                             !.offset = @ + Prefix(parts, k - 1) * before.strides[x]]
               ELSE out.kind = "none"

\* C11 witness: the call of next for a part of size zero at the end of an
\* axis with elements panicked
C11_Witness ==
    /\ op.name = "next"
    /\ op.args.k = Len(op.args.parts)
    /\ op.args.k = 2
    /\ op.args.parts[op.args.k] = 0
    /\ before.shape[op.args.axis + 1] >= 1
    /\ out.kind = "panic"

\* the live layouts that hold block b
Owners(b) == {i \in 1..MaxObjs : objs[i].live /\ objs[i].ptr = b}

\* C12: a live layout holds a heap block iff its rank > N; the block has
\* 1 + 2 * rank slots and has not been released; no block is held by two
\* live layouts; a block is released at most once, with the size it was
\* allocated with, and it is unreleased exactly while its owner is alive.
C12_HeapOwnership ==
    /\ \A i \in 1..MaxObjs :
          objs[i].live =>
             /\ (objs[i].ptr # 0) <=> (Ndim(objs[i].l) > N)
             /\ objs[i].ptr # 0 =>
                   /\ objs[i].ptr \in 1..Len(heap)
                   /\ heap[objs[i].ptr].size = 1 + 2 * Ndim(objs[i].l)
                   /\ heap[objs[i].ptr].frees = 0
    /\ \A b \in 1..Len(heap) :
          /\ Cardinality(Owners(b)) <= 1
          /\ heap[b].frees <= 1
          /\ heap[b].frees = 1 => heap[b].freed = heap[b].size /\ Owners(b) = {}
          /\ heap[b].frees = 0 => Cardinality(Owners(b)) = 1

\* C12 witness: a layout of rank > N and its equal copy are alive, each with
\* a block of its own, after another block was released
C12_Witness ==
    /\ op.name = "owned"
    /\ \E i, j \in 1..MaxObjs :
          /\ i # j
          /\ objs[i].live /\ objs[j].live
          /\ objs[i].l = objs[j].l
          /\ Ndim(objs[i].l) > N
          /\ objs[i].ptr # objs[j].ptr
    /\ \E b \in 1..Len(heap) : heap[b].frees = 1

\* the linear positions the first k axes of l address
RECURSIVE PosSet(_, _)
PosSet(l, k) ==
    IF k = 0 THEN {l.offset}
    ELSE {q + i * l.strides[k] : q \in PosSet(l, k - 1), i \in 0..(l.shape[k] - 1)}

Positions(l) == PosSet(l, Ndim(l))

\* C13: when merge(start..end) of a non-empty range of a layout L with all
\* extents >= 1 returns Some(M): M.offset = L.offset, the axes outside the
\* range are unchanged and in order, the merged axis has the product of the
\* run's extents and a stride of the run's smallest magnitude, and M
\* addresses exactly the positions L addresses (so data_range is the same).
C13_MergeKeepsPositions ==
    (/\ op.name = "merge"
     /\ MergePre(before, op.args)
     /\ \A k \in 1..Ndim(before) : before.shape[k] >= 1
     /\ out.kind = "ok")
        => LET s == op.args.start
               e == op.args.end
               M == out.val
               run == Pairs(before, op.args)
           IN  /\ M.offset = before.offset
               /\ Ndim(M) = Ndim(before) - (e - s) + 1
               /\ Len(M.strides) = Ndim(M)
               /\ \A k \in 1..s : AxisOf(M, k - 1) = AxisOf(before, k - 1)
               /\ \A k \in (e + 1)..Ndim(before) :
                     AxisOf(M, k - (e - s)) = AxisOf(before, k - 1)
               /\ M.shape[s + 1] = Product([k \in 1..Len(run) |-> run[k].d])
               /\ \A k \in 1..Len(run) : Abs(M.strides[s + 1]) <= Abs(run[k].s)
               /\ Positions(M) = Positions(before)
               /\ data_range(M) = data_range(before)

\* C13 witness: axes of extents [1, 2] and strides [0, 1], two positions,
\* were merged into one axis of stride 0, a single position
C13_Witness ==
    /\ op.name = "merge"
    /\ before.shape = <<1, 2>>
    /\ before.strides = <<0, 1>>
    /\ op.args = [start |-> 0, end |-> 2]
    /\ out.kind = "ok"
    /\ out.val.strides = <<0>>
    /\ Positions(out.val) # Positions(before)

====
